---- MODULE Spec2Model ----
(***************************************************************************)
(* The three variants of the LearnOpenGL tutorial program (src/main.cpp,   *)
(* src/unnamed/part_000, src/unnamed/part_001) as one state machine.       *)
(* A behaviour is one run of main() of one variant: every GLFW / GL call   *)
(* the program issues is appended to `trace`, every diagnostic to `err`.   *)
(* The library is the environment: whether glfwInit, glfwCreateWindow,     *)
(* gladLoadGLLoader, glCompileShader and glLinkProgram succeed, whether    *)
(* escape is pressed and whether the OS closes or resizes the window are   *)
(* chosen nondeterministically where the call is made.                     *)
(***************************************************************************)
EXTENDS Integers, Sequences, FiniteSets, TLC

VARIABLES
    variant,          \* which program runs: "main", "part_000", "part_001"
    pc,               \* position in main()
    trace,            \* GLFW / GL calls issued so far, in order
    err,              \* diagnostics written to std::cerr, in order
    exitCode,         \* value returned by main (meaningful once pc = "done")
    locals,           \* main()'s constructed local objects, in construction order
    glfwInitialised,  \* GLFW library state: glfwInit succeeded, not yet terminated
    valid,            \* glfw::valid (main.cpp, part_000)
    handle,           \* glfw_window::handle: "NULL" or "win"
    callback,         \* framebuffer-size callback currently registered on the window
    shouldClose,      \* the window's close flag
    compiled,         \* GL_COMPILE_STATUS of each shader object
    linked,           \* GL_LINK_STATUS of the program object
    shaders,          \* the vector of shaders held by the pipeline / program (or `v`)
    live,             \* per GPU handle: number of live wrapper objects holding its id
    prior,            \* (failing stage, exit code) of earlier runs of this executable
    vertices,         \* number of floats in the vertex list given to a create function
    indices,          \* the index list given to element_array::create
    count             \* the count (part_000: the byte size) the created wrapper holds

vars == <<variant, pc, trace, err, exitCode, locals, glfwInitialised, valid, handle,
          callback, shouldClose, compiled, linked, shaders, live, prior, vertices, indices, count>>

\* ---------------------------------------------------------------- bounds
MaxFrames == 2      \* render-loop iterations explored per run
MaxPrior == 1       \* earlier runs whose outcome is remembered
MaxVertices == 4    \* vertices in a vertex list given to a create function
MaxIndices == 3     \* indices in a generated index list
MaxDraws == 2       \* draw calls explored on one created array

\* ---------------------------------------------------------------- constants
TriangleFloats == 9 \* floats in triangle::create's vertex list
SizeofFloat == 4    \* sizeof(float)

Variants == {"main", "part_000", "part_001"}
Handles == {"vbo", "vao", "vs", "fs", "prog"}
ShaderHandles == {"vs", "fs"}

\* ---------------------------------------------------------------- helpers
Call(f, a) == [f |-> f, t |-> "", a |-> a]
CallT(f, t, a) == [f |-> f, t |-> t, a |-> a]     \* a call with a target / pname
Bool(b) == IF b THEN "true" ELSE "false"
Reverse(s) == [i \in 1..Len(s) |-> s[Len(s) + 1 - i]]
Has(c) == \E i \in 1..Len(trace) : trace[i] = c
Called(f) == \E i \in 1..Len(trace) : trace[i].f = f
Count(f) == Cardinality({i \in 1..Len(trace) : trace[i].f = f})
CountCall(c) == Cardinality({i \in 1..Len(trace) : trace[i] = c})
Add(fn, h, k) == [fn EXCEPT ![h] = @ + k]
Frames == CountCall(Call("glfwWindowShouldClose", "false"))

\* std::vector destroys its elements in an order the library chooses.
Orders(s) == {s, Reverse(s)}
NonNull(s) == SelectSeq(s, LAMBDA x : x # "null")

\* ---------------------------------------------------------------- Init
Init ==
    /\ variant \in Variants
    /\ pc = "instantiate"
    /\ trace = <<>>
    /\ err = <<>>
    /\ exitCode = 0
    /\ locals = <<>>
    /\ glfwInitialised = FALSE
    /\ valid = FALSE
    /\ handle = "NULL"
    /\ callback = FALSE
    /\ shouldClose = FALSE
    /\ compiled = [s \in ShaderHandles |-> FALSE]
    /\ linked = FALSE
    /\ shaders = <<>>
    /\ live = [h \in Handles |-> 0]
    /\ prior = {}
    /\ vertices = TriangleFloats
    /\ indices = <<>>
    /\ count = 0

\* ---------------------------------------------------------------- exit codes
\* main.cpp and part_000: every early return of main is `return -1`.
exit_code(stage) == -1

\* A plausible slip: the loader failure reuses the window's code.
exit_code_p001_reused(stage) ==
    CASE stage = "init" -> -1
      [] stage = "window" -> -2
      [] stage = "loader" -> -2
      [] stage = "shader" -> -4

\* part_001: return -1 / -2 / -3 / -4.
exit_code_p001(stage) ==
    CASE stage = "init" -> -1
      [] stage = "window" -> -2
      [] stage = "loader" -> -3
      [] stage = "shader" -> -4

\* ---------------------------------------------------------------- bootstrap
glfw_hints ==
    << Call("glfwWindowHint", "GLFW_CONTEXT_VERSION_MAJOR"),
       Call("glfwWindowHint", "GLFW_CONTEXT_VERSION_MINOR"),
       Call("glfwWindowHint", "GLFW_OPENGL_PROFILE"),
       Call("glfwWindowHint", "GLFW_OPENGL_FORWARD_COMPAT") >>

\* glfw::instantiate of main.cpp (part_000 lines 16-28 are the same code):
\* the result of glfwInit is stored in `valid`, nothing is printed, and main
\* goes on to glfw_window::create without looking at it.
glfw_instantiate ==
    /\ variant \in {"main", "part_000"}
    /\ pc = "instantiate"
    /\ \E success \in BOOLEAN :
        /\ trace' = trace \o << Call("glfwInit", Bool(success)) >>
                          \o (IF success THEN glfw_hints ELSE <<>>)
        /\ glfwInitialised' = success
        /\ valid' = success
    /\ locals' = Append(locals, "glfw")
    /\ pc' = "window"
    /\ UNCHANGED <<variant, err, exitCode, handle, callback, shouldClose, compiled,
                   linked, shaders, live, prior, vertices, indices, count>>

\* glfw::instantiate of part_001, with main's `if (!glfw) return -1;`.
glfw_instantiate_p001 ==
    /\ variant = "part_001"
    /\ pc = "instantiate"
    /\ \E success \in BOOLEAN :
        /\ glfwInitialised' = success
        /\ valid' = success
        /\ IF success
           THEN /\ trace' = trace \o << Call("glfwInit", "true") >> \o glfw_hints
                /\ locals' = Append(locals, "glfw")
                /\ pc' = "window"
                /\ UNCHANGED <<err, exitCode>>
           ELSE /\ trace' = trace \o << Call("glfwInit", "false") >>
                /\ err' = Append(err, "Failed to instantiate glfw")
                /\ exitCode' = exit_code_p001("init")
                /\ pc' = "return"
                /\ UNCHANGED locals
    /\ UNCHANGED <<variant, handle, callback, shouldClose, compiled, linked, shaders,
                   live, prior, vertices, indices, count>>

\* glfwCreateWindow returns NULL when the library is not initialised
\* (GLFW_NOT_INITIALIZED); otherwise creation may succeed or fail.
CreateWindowResults == IF glfwInitialised THEN {"win", "NULL"} ELSE {"NULL"}

\* glfw_window::create of main.cpp (part_000 lines 38-43 are the same code).
glfw_window_create ==
    /\ variant \in {"main", "part_000"}
    /\ pc = "window"
    /\ \E h \in CreateWindowResults :
        /\ trace' = Append(trace, Call("glfwCreateWindow", h))
        /\ handle' = h
    /\ locals' = Append(locals, "window")
    /\ pc' = "make_current"
    /\ UNCHANGED <<variant, err, exitCode, glfwInitialised, valid, callback, shouldClose,
                   compiled, linked, shaders, live, prior, vertices, indices, count>>

\* glfw_window::make_current returns handle != nullptr.
make_current_result(h) == h # "NULL"

\* glfw_window::make_current of main.cpp (part_000 lines 45-55 are the same
\* code), with main's `if (!window.make_current()) return -1;`.
glfw_window_make_current ==
    /\ variant \in {"main", "part_000"}
    /\ pc = "make_current"
    /\ IF handle # "NULL"
       THEN /\ trace' = Append(trace, Call("glfwMakeContextCurrent", handle))
            /\ UNCHANGED err
       ELSE /\ err' = Append(err, "Failed to create GLFW window")
            /\ UNCHANGED trace
    /\ IF make_current_result(handle)
       THEN /\ pc' = "glad"
            /\ UNCHANGED exitCode
       ELSE /\ exitCode' = exit_code("window")
            /\ pc' = "return"
    /\ UNCHANGED <<variant, locals, glfwInitialised, valid, handle, callback, shouldClose,
                   compiled, linked, shaders, live, prior, vertices, indices, count>>

\* glfw_window::create of part_001, with main's `if (!window) return -2;`.
glfw_window_create_p001 ==
    /\ variant = "part_001"
    /\ pc = "window"
    /\ \E h \in CreateWindowResults :
        /\ trace' = Append(trace, Call("glfwCreateWindow", h))
        /\ handle' = h
        /\ IF h # "NULL"
           THEN /\ locals' = Append(locals, "window")
                /\ pc' = "glad"
                /\ UNCHANGED <<err, exitCode>>
           ELSE /\ err' = Append(err, "Failed to create GLFW window")
                /\ exitCode' = exit_code_p001("window")
                /\ pc' = "return"
                /\ UNCHANGED locals
    /\ UNCHANGED <<variant, glfwInitialised, valid, callback, shouldClose, compiled,
                   linked, shaders, live, prior, vertices, indices, count>>

\* A loader check that returns early without printing anything.
glad_initialise_silent ==
    /\ variant \in {"main", "part_000"}
    /\ pc = "glad"
    /\ \E ok \in BOOLEAN :
        /\ trace' = Append(trace, Call("gladLoadGLLoader", Bool(ok)))
        /\ IF ok
           THEN /\ pc' = "viewport"
                /\ UNCHANGED exitCode
           ELSE /\ exitCode' = exit_code("loader")
                /\ pc' = "return"
    /\ locals' = Append(locals, "glad")
    /\ UNCHANGED <<variant, err, glfwInitialised, valid, handle, callback, shouldClose,
                   compiled, linked, shaders, live, prior, vertices, indices, count>>

\* glad::initialise and glad::check of main.cpp (part_000 lines 58-73 are the
\* same code), with main's `if (!glad.check()) return -1;`.
glad_initialise ==
    /\ variant \in {"main", "part_000"}
    /\ pc = "glad"
    /\ \E ok \in BOOLEAN :
        /\ trace' = Append(trace, Call("gladLoadGLLoader", Bool(ok)))
        /\ IF ok
           THEN /\ pc' = "viewport"
                /\ UNCHANGED <<err, exitCode>>
           ELSE /\ err' = Append(err, "Failed to initialize GLAD")
                /\ exitCode' = exit_code("loader")
                /\ pc' = "return"
    /\ locals' = Append(locals, "glad")
    /\ UNCHANGED <<variant, glfwInitialised, valid, handle, callback, shouldClose,
                   compiled, linked, shaders, live, prior, vertices, indices, count>>

\* A loader that runs before the window's context is made current.
glad_initialise_p001_no_context ==
    /\ variant = "part_001"
    /\ pc = "glad"
    /\ \E ok \in BOOLEAN :
        /\ trace' = trace \o << Call("gladLoadGLLoader", Bool(ok)),
                                Call("glfwMakeContextCurrent", handle) >>
        /\ IF ok
           THEN /\ locals' = Append(locals, "glad")
                /\ pc' = "viewport"
                /\ UNCHANGED <<err, exitCode>>
           ELSE /\ err' = Append(err, "Failed to initialize GLAD")
                /\ exitCode' = exit_code_p001("loader")
                /\ pc' = "return"
                /\ UNCHANGED locals
    /\ UNCHANGED <<variant, glfwInitialised, valid, handle, callback, shouldClose,
                   compiled, linked, shaders, live, prior, vertices, indices, count>>

\* glad::initialise of part_001 (make_current, then the loader), with main's
\* `if (!glad) return -3;`.
glad_initialise_p001 ==
    /\ variant = "part_001"
    /\ pc = "glad"
    /\ \E ok \in BOOLEAN :
        /\ trace' = trace \o << Call("glfwMakeContextCurrent", handle),
                                Call("gladLoadGLLoader", Bool(ok)) >>
        /\ IF ok
           THEN /\ locals' = Append(locals, "glad")
                /\ pc' = "viewport"
                /\ UNCHANGED <<err, exitCode>>
           ELSE /\ err' = Append(err, "Failed to initialize GLAD")
                /\ exitCode' = exit_code_p001("loader")
                /\ pc' = "return"
                /\ UNCHANGED locals
    /\ UNCHANGED <<variant, glfwInitialised, valid, handle, callback, shouldClose,
                   compiled, linked, shaders, live, prior, vertices, indices, count>>

\* ~viewport: the callback is reset to null.
viewport_dtor == << Call("glfwSetFramebufferSizeCallback", "nullptr") >>

\* `viewport::initialise(window);` of main.cpp (part_000 lines 75-93, 296 are
\* the same code): the returned viewport is a discarded temporary, destroyed at
\* the end of the statement.
viewport_initialise ==
    /\ variant \in {"main", "part_000"}
    /\ pc = "viewport"
    /\ trace' = trace \o << Call("glfwSetFramebufferSizeCallback", "framebuffer_size_callback") >>
                      \o viewport_dtor
    /\ callback' = FALSE
    /\ pc' = IF variant = "main" THEN "vertex_array" ELSE "vertex_buffer"
    /\ UNCHANGED <<variant, err, exitCode, locals, glfwInitialised, valid, handle,
                   shouldClose, compiled, linked, shaders, live, prior, vertices, indices, count>>

\* `auto viewport = viewport::initialise(*window);` of part_001.
viewport_initialise_p001 ==
    /\ variant = "part_001"
    /\ pc = "viewport"
    /\ trace' = Append(trace, Call("glfwSetFramebufferSizeCallback", "framebuffer_size_callback"))
    /\ callback' = TRUE
    /\ locals' = Append(locals, "viewport")
    /\ pc' = "vertex_array"
    /\ UNCHANGED <<variant, err, exitCode, glfwInitialised, valid, handle, shouldClose,
                   compiled, linked, shaders, live, prior, vertices, indices, count>>

\* ---------------------------------------------------------------- buffers, vertex arrays
\* buffer::create: count = data.size().
buffer_count(n) == n

\* vertex_buffer::create of part_000: size = vertices.size() * sizeof(float).
vertex_buffer_size_p000(n) == n * SizeofFloat

\* buffer::bind of main.cpp (part_001 lines 120-126 are the same code).
buffer_bind(target, id) ==
    << CallT("glBindBuffer", target, id), CallT("glBufferData", target, id) >>

\* The guard buffer::bind returns: glBindBuffer(array_type, 0) at scope exit.
buffer_bind_guard(target) == << CallT("glBindBuffer", target, "0") >>

\* vertex_array::create of main.cpp (part_001 lines 131-143 are the same
\* code): the buffer wrapper `b` is a local that dies at the return, the
\* guards unbind in reverse order of declaration.
vertex_array_create_calls ==
    << Call("glGenBuffers", "vbo"), Call("glGenVertexArrays", "vao"),
       Call("glBindVertexArray", "vao") >>
    \o buffer_bind("GL_ARRAY_BUFFER", "vbo")
    \o << Call("glVertexAttribPointer", "0"), Call("glEnableVertexAttribArray", "0") >>
    \o buffer_bind_guard("GL_ARRAY_BUFFER")
    \o << Call("glBindVertexArray", "0") >>

vertex_array_create ==
    /\ variant \in {"main", "part_001"}
    /\ pc = "vertex_array"
    /\ trace' = trace \o vertex_array_create_calls
    /\ live' = Add(live, "vao", 1)
    /\ pc' = IF variant = "main" THEN "drawable" ELSE "vertex_shader"
    /\ UNCHANGED <<variant, err, exitCode, locals, glfwInitialised, valid, handle,
                   callback, shouldClose, compiled, linked, shaders, prior, vertices, indices, count>>

\* vertex_buffer::create of part_001's predecessor part_000.
vertex_buffer_create_p000 ==
    /\ variant = "part_000"
    /\ pc = "vertex_buffer"
    /\ trace' = Append(trace, Call("glGenBuffers", "vbo"))
    /\ live' = Add(live, "vbo", 1)
    /\ pc' = "vertex_array"
    /\ UNCHANGED <<variant, err, exitCode, locals, glfwInitialised, valid, handle,
                   callback, shouldClose, compiled, linked, shaders, prior, vertices, indices, count>>

\* vertex_array::create of part_000: `return {id, buffer};` copies the
\* vertex_buffer wrapper into the vertex_array while the caller's stays alive.
vertex_array_create_p000 ==
    /\ variant = "part_000"
    /\ pc = "vertex_array"
    /\ trace' = trace \o
         << Call("glGenVertexArrays", "vao"), Call("glBindVertexArray", "vao"),
            CallT("glBindBuffer", "GL_ARRAY_BUFFER", "vbo"),
            CallT("glBufferData", "GL_ARRAY_BUFFER", "vbo"),
            Call("glVertexAttribPointer", "0"), Call("glEnableVertexAttribArray", "0"),
            CallT("glBindBuffer", "GL_ARRAY_BUFFER", "0"),
            Call("glBindVertexArray", "0") >>
    /\ live' = Add(Add(live, "vao", 1), "vbo", 1)
    /\ pc' = "vertex_shader"
    /\ UNCHANGED <<variant, err, exitCode, locals, glfwInitialised, valid, handle,
                   callback, shouldClose, compiled, linked, shaders, prior, vertices, indices, count>>

\* `return {vertex_array, triangle_shader::create()};` of triangle::create in
\* main.cpp: shape::drawable is copy-initialised from the local vertex_array
\* before triangle_shader::create() runs.
shape_drawable ==
    /\ variant = "main"
    /\ pc = "drawable"
    /\ live' = Add(live, "vao", 1)
    /\ pc' = "vertex_shader"
    /\ UNCHANGED <<variant, trace, err, exitCode, locals, glfwInitialised, valid, handle,
                   callback, shouldClose, compiled, linked, shaders, prior, vertices, indices, count>>

\* ---------------------------------------------------------------- shaders
ShaderAt(p) == IF p = "vertex_shader" THEN "vs" ELSE "fs"
ShaderName(s) == IF s = "vs" THEN "triangle_vertex" ELSE "triangle_fragment"
AfterShader(p) == IF p = "vertex_shader" THEN "fragment_shader" ELSE "pipeline"

shader_create_calls(s) ==
    << Call("glCreateShader", s), Call("glShaderSource", s), Call("glCompileShader", s) >>

\* shader::create of main.cpp (part_000 lines 147-155 build the same calls and
\* return the wrapper by value): no status is looked at here.
shader_create ==
    /\ variant \in {"main", "part_000"}
    /\ pc \in {"vertex_shader", "fragment_shader"}
    /\ LET s == ShaderAt(pc) IN
        /\ trace' = trace \o shader_create_calls(s)
        /\ \E ok \in BOOLEAN : compiled' = [compiled EXCEPT ![s] = ok]
        /\ live' = Add(live, s, 1)
        /\ shaders' = IF variant = "main" THEN Append(shaders, s) ELSE shaders
    /\ pc' = AfterShader(pc)
    /\ UNCHANGED <<variant, err, exitCode, locals, glfwInitialised, valid, handle,
                   callback, shouldClose, linked, prior, vertices, indices, count>>

\* shader::create of part_001: the compile status is read here; on failure the
\* diagnostic is printed and a null pointer is returned (the shader object
\* created by glCreateShader gets no wrapper).
shader_create_p001 ==
    /\ variant = "part_001"
    /\ pc \in {"vertex_shader", "fragment_shader"}
    /\ LET s == ShaderAt(pc) IN
       \E ok \in BOOLEAN :
        /\ compiled' = [compiled EXCEPT ![s] = ok]
        /\ IF ok
           THEN /\ trace' = trace \o shader_create_calls(s)
                       \o << CallT("glGetShaderiv", "GL_COMPILE_STATUS", s) >>
                /\ live' = Add(live, s, 1)
                /\ shaders' = Append(shaders, s)
                /\ UNCHANGED err
           ELSE /\ trace' = trace \o shader_create_calls(s)
                       \o << CallT("glGetShaderiv", "GL_COMPILE_STATUS", s),
                             Call("glGetShaderInfoLog", s) >>
                /\ err' = Append(err, "ERROR::SHADER::" \o ShaderName(s) \o "::COMPILATION_FAILED")
                /\ shaders' = Append(shaders, "null")
                /\ UNCHANGED live
    /\ pc' = AfterShader(pc)
    /\ UNCHANGED <<variant, exitCode, locals, glfwInitialised, valid, handle,
                   callback, shouldClose, linked, prior, vertices, indices, count>>

\* glLinkProgram can only succeed when every attached shader compiled.
LinkResults == IF \A s \in ShaderHandles : compiled[s] THEN BOOLEAN ELSE {FALSE}

DeleteShaders(seq) == [i \in 1..Len(seq) |-> Call("glDeleteShader", seq[i])]

program_create_calls ==
    << Call("glCreateProgram", "prog"), Call("glAttachShader", "vs"),
       Call("glAttachShader", "fs"), Call("glLinkProgram", "prog") >>

\* shader_pipeline::create of main.cpp: the vector of unique_ptr is moved into
\* the pipeline; no status is looked at here.
shader_pipeline_create ==
    /\ variant = "main"
    /\ pc = "pipeline"
    /\ trace' = trace \o program_create_calls
    /\ \E ok \in LinkResults : linked' = ok
    /\ live' = Add(live, "prog", 1)
    /\ pc' = "triangle_return"
    /\ UNCHANGED <<variant, err, exitCode, locals, glfwInitialised, valid, handle,
                   callback, shouldClose, compiled, shaders, prior, vertices, indices, count>>

\* `shader_program::create({vertex_shader, fragment_shader})` of part_000.  The
\* braced list copies both shader wrappers into the initializer_list's array,
\* the vector argument copies them again, `return {shaderProgram, shaders};`
\* copies the vector (a named reference is an lvalue) into the program; at the
\* end of the statement the temporary vector and then the array are destroyed,
\* each element's ~shader calling glDeleteShader.
shader_program_create_p000 ==
    /\ variant = "part_000"
    /\ pc = "pipeline"
    /\ \E tmp \in Orders(<<"vs", "fs">>) :
        trace' = trace \o program_create_calls
                       \o DeleteShaders(tmp) \o DeleteShaders(<<"fs", "vs">>)
    /\ \E ok \in LinkResults : linked' = ok
    /\ shaders' = <<"vs", "fs">>
    /\ live' = Add(Add(Add(live, "prog", 1), "vs", 3 - 2), "fs", 3 - 2)
    /\ pc' = "triangle_return"
    /\ UNCHANGED <<variant, err, exitCode, locals, glfwInitialised, valid, handle,
                   callback, shouldClose, compiled, prior, vertices, indices, count>>

\* glGetProgramiv(program, GL_COMPILE_STATUS, &success): GL_COMPILE_STATUS is
\* not a program parameter, the call raises GL_INVALID_ENUM and leaves
\* `success` as it was, which is uninitialised: the value read afterwards is
\* indeterminate, whatever the link status is.
program_status_results == BOOLEAN

\* shader_pipeline::create of part_001, then the destruction of `v` at the end
\* of triangle_shader::create (the vector itself was not moved from).
shader_pipeline_create_p001 ==
    /\ variant = "part_001"
    /\ pc = "pipeline"
    /\ \E del \in Orders(NonNull(shaders)) :
       IF \E i \in 1..Len(shaders) : shaders[i] = "null"
       THEN /\ trace' = trace \o DeleteShaders(del)
            /\ UNCHANGED <<linked, err>>
            /\ live' = [h \in Handles |-> IF h \in ShaderHandles THEN 0 ELSE live[h]]
       ELSE \E ok \in LinkResults, success \in program_status_results :
            /\ linked' = ok
            /\ IF success
               THEN /\ trace' = trace \o program_create_calls
                           \o << CallT("glGetProgramiv", "GL_COMPILE_STATUS", "prog") >>
                           \o DeleteShaders(del)
                    /\ live' = [h \in Handles |-> IF h \in ShaderHandles THEN 0
                                                  ELSE IF h = "prog" THEN live[h] + 1
                                                  ELSE live[h]]
                    /\ UNCHANGED err
               ELSE /\ trace' = trace \o program_create_calls
                           \o << CallT("glGetProgramiv", "GL_COMPILE_STATUS", "prog"),
                                 Call("glGetProgramInfoLog", "prog") >>
                           \o DeleteShaders(del)
                    /\ err' = Append(err, "ERROR::SHADER::PROGRAM::COMPILATION_FAILED")
                    /\ live' = [h \in Handles |-> IF h \in ShaderHandles THEN 0 ELSE live[h]]
    /\ shaders' = <<>>
    /\ pc' = "shape"
    /\ UNCHANGED <<variant, exitCode, locals, glfwInitialised, valid, handle,
                   callback, shouldClose, compiled, prior, vertices, indices, count>>

\* ---------------------------------------------------------------- shape
\* End of triangle::create in main.cpp: the local vertex_array dies, the shape
\* (main's local) holds the copy and the pipeline.
triangle_create_return ==
    /\ variant = "main"
    /\ pc = "triangle_return"
    /\ live' = Add(live, "vao", -1)
    /\ locals' = Append(locals, "shape")
    /\ pc' = "check"
    /\ UNCHANGED <<variant, trace, err, exitCode, glfwInitialised, valid, handle,
                   callback, shouldClose, compiled, linked, shaders, prior, vertices, indices, count>>

\* `return {shader_program, vertex_array};` of triangle::create in part_000:
\* both locals are lvalues, so the program (with its vector of shaders) and the
\* vertex array (with its buffer) are copied into the returned triangle.
triangle_create_p000 ==
    /\ variant = "part_000"
    /\ pc = "triangle_return"
    /\ live' = [h \in Handles |-> live[h] + 1]
    /\ pc' = "triangle_destroy"
    /\ UNCHANGED <<variant, trace, err, exitCode, locals, glfwInitialised, valid, handle,
                   callback, shouldClose, compiled, linked, shaders, prior, vertices, indices, count>>

\* End of triangle::create in part_000: the locals die in reverse order of
\* declaration: shader_program (its vector of shaders), fragment_shader,
\* vertex_shader, vertex_array (with its buffer copy), vertex_buffer.
triangle_create_return_p000 ==
    /\ variant = "part_000"
    /\ pc = "triangle_destroy"
    /\ \E vec \in Orders(<<"vs", "fs">>) :
        trace' = trace \o DeleteShaders(vec) \o DeleteShaders(<<"fs", "vs">>)
    /\ live' = [h \in Handles |-> live[h] - (IF h \in {"vs", "fs", "vbo"} THEN 2 ELSE 1)]
    /\ locals' = Append(locals, "shape")
    /\ pc' = "check"
    /\ UNCHANGED <<variant, err, exitCode, glfwInitialised, valid, handle,
                   callback, shouldClose, compiled, linked, shaders, prior, vertices, indices, count>>

\* triangle::create of part_001 after triangle_shader::create returned: with a
\* pipeline, shape's constructor takes the vertex array and the pipeline by
\* value and copies them into its members; without one, nullopt is returned
\* and main takes `if (!shape) return -4;`.
triangle_create_p001 ==
    /\ variant = "part_001"
    /\ pc = "shape"
    /\ IF live["prog"] > 0
       THEN /\ live' = Add(Add(live, "vao", 1), "prog", 1)
            /\ pc' = "triangle_return"
            /\ UNCHANGED exitCode
       ELSE /\ live' = Add(live, "vao", -1)
            /\ exitCode' = exit_code_p001("shader")
            /\ pc' = "return"
    /\ UNCHANGED <<variant, trace, err, locals, glfwInitialised, valid, handle,
                   callback, shouldClose, compiled, linked, shaders, prior, vertices, indices, count>>

\* End of triangle::create in part_001 on the success path: the temporary
\* optional<shader_pipeline> and the local vertex array die.
triangle_create_return_p001 ==
    /\ variant = "part_001"
    /\ pc = "triangle_return"
    /\ live' = Add(Add(live, "vao", -1), "prog", -1)
    /\ locals' = Append(locals, "shape")
    /\ pc' = "loop"
    /\ UNCHANGED <<variant, trace, err, exitCode, glfwInitialised, valid, handle,
                   callback, shouldClose, compiled, linked, shaders, prior, vertices, indices, count>>

\* ---------------------------------------------------------------- check
\* A check that trusts every shader.
shader_check_trusting(s) == TRUE

\* shader::check returns the shader's compile status.
shader_check(s) == compiled[s]

\* Index of the first shader std::any_of finds failing, 0 when none fails.
FirstFailing(seq) ==
    IF \E i \in 1..Len(seq) : ~shader_check(seq[i])
    THEN CHOOSE i \in 1..Len(seq) :
            /\ ~shader_check(seq[i])
            /\ \A j \in 1..(i - 1) : shader_check(seq[j])
    ELSE 0

ShaderCheckCalls(seq, bad) ==
    [i \in 1..(IF bad = 0 THEN Len(seq) ELSE bad) |->
        CallT("glGetShaderiv", "GL_COMPILE_STATUS", seq[i])]
    \o (IF bad = 0 THEN <<>> ELSE << Call("glGetShaderInfoLog", seq[bad]) >>)

\* shader_pipeline::check of main.cpp (shader_program::check of part_000,
\* lines 189-204, is the same code over a vector of shader values), with
\* main's `if (!shape.check()) return -1;`.  The guard clears the vector of
\* shaders when check returns, whatever it returns.
shader_pipeline_check ==
    /\ variant \in {"main", "part_000"}
    /\ pc = "check"
    /\ LET bad == FirstFailing(shaders) IN
       \E del \in Orders(shaders), success \in program_status_results :
        /\ IF bad # 0
           THEN /\ trace' = trace \o ShaderCheckCalls(shaders, bad) \o DeleteShaders(del)
                /\ err' = Append(err, "ERROR::SHADER::" \o ShaderName(shaders[bad])
                                        \o "::COMPILATION_FAILED")
           ELSE IF success
           THEN /\ trace' = trace \o ShaderCheckCalls(shaders, 0)
                       \o << CallT("glGetProgramiv", "GL_COMPILE_STATUS", "prog") >>
                       \o DeleteShaders(del)
                /\ UNCHANGED err
           ELSE /\ trace' = trace \o ShaderCheckCalls(shaders, 0)
                       \o << CallT("glGetProgramiv", "GL_COMPILE_STATUS", "prog"),
                             Call("glGetProgramInfoLog", "prog") >>
                       \o DeleteShaders(del)
                /\ err' = Append(err, "ERROR::SHADER::PROGRAM::COMPILATION_FAILED")
        /\ IF bad = 0 /\ success
           THEN /\ pc' = "loop"
                /\ UNCHANGED exitCode
           ELSE /\ exitCode' = exit_code("shader")
                /\ pc' = "return"
    /\ live' = [h \in Handles |-> IF h \in ShaderHandles THEN live[h] - 1 ELSE live[h]]
    /\ shaders' = <<>>
    /\ UNCHANGED <<variant, locals, glfwInitialised, valid, handle,
                   callback, shouldClose, compiled, linked, prior, vertices, indices, count>>

\* ---------------------------------------------------------------- render loop
\* The loop test of render_loop (the same code in the three variants); once
\* the loop is left main reaches `return 0;`.
render_loop_test ==
    /\ pc = "loop"
    /\ shouldClose \/ Frames < MaxFrames
    /\ trace' = Append(trace, Call("glfwWindowShouldClose", Bool(shouldClose)))
    /\ IF shouldClose
       THEN /\ exitCode' = 0
            /\ pc' = "return"
       ELSE /\ pc' = "input"
            /\ UNCHANGED exitCode
    /\ UNCHANGED <<variant, err, locals, glfwInitialised, valid, handle, callback,
                   shouldClose, compiled, linked, shaders, live, prior, vertices, indices, count>>

\* A process_input that reads the key and forgets to set the flag.
process_input_forgetful(pressed) ==
    << Call("glfwGetKey", IF pressed THEN "GLFW_PRESS" ELSE "GLFW_RELEASE") >>

\* process_input (the same code in the three variants).
process_input_calls(pressed) ==
    << Call("glfwGetKey", IF pressed THEN "GLFW_PRESS" ELSE "GLFW_RELEASE") >>
    \o (IF pressed THEN << Call("glfwSetWindowShouldClose", "true") >> ELSE <<>>)

process_input ==
    /\ pc = "input"
    /\ \E pressed \in BOOLEAN :
        LET calls == process_input_calls(pressed) IN
        /\ trace' = trace \o calls
        /\ shouldClose' = (shouldClose
                            \/ \E i \in 1..Len(calls) : calls[i].f = "glfwSetWindowShouldClose")
    /\ pc' = "clear"
    /\ UNCHANGED <<variant, err, exitCode, locals, glfwInitialised, valid, handle,
                   callback, compiled, linked, shaders, live, prior, vertices, indices, count>>

\* clear_color_buffer (the same code in the three variants).
clear_color_buffer ==
    /\ pc = "clear"
    /\ trace' = trace \o << Call("glClearColor", ""), Call("glClear", "GL_COLOR_BUFFER_BIT") >>
    /\ pc' = "draw"
    /\ UNCHANGED <<variant, err, exitCode, locals, glfwInitialised, valid, handle,
                   callback, shouldClose, compiled, linked, shaders, live, prior, vertices, indices, count>>

\* vertex_array::draw of main.cpp (part_001 lines 146-152 are the same code):
\* the count is the buffer's count.
vertex_array_draw ==
    << Call("glBindVertexArray", "vao"),
       Call("glDrawArrays", ToString(buffer_count(TriangleFloats))),
       Call("glBindVertexArray", "0") >>

\* vertex_array::draw of part_000: the count is buffer.size / 3, no unbind.
vertex_array_draw_p000 ==
    << Call("glBindVertexArray", "vao"),
       Call("glDrawArrays", ToString(vertex_buffer_size_p000(TriangleFloats) \div 3)) >>

\* shader_pipeline::use / shader_program::use.
shader_pipeline_use == << Call("glUseProgram", "prog") >>

\* A draw that binds and draws before the program is selected.
shape_draw_swapped(v) ==
    (IF v = "part_000" THEN vertex_array_draw_p000 ELSE vertex_array_draw)
    \o shader_pipeline_use

\* shape::draw (triangle::draw in part_000): use the program, then draw.
shape_draw_calls(v) ==
    shader_pipeline_use
    \o (IF v = "part_000" THEN vertex_array_draw_p000 ELSE vertex_array_draw)

shape_draw ==
    /\ pc = "draw"
    /\ trace' = trace \o shape_draw_calls(variant)
    /\ pc' = "swap"
    /\ UNCHANGED <<variant, err, exitCode, locals, glfwInitialised, valid, handle,
                   callback, shouldClose, compiled, linked, shaders, live, prior, vertices, indices, count>>

\* `glfwSwapBuffers(window.handle);` of render_loop.
render_loop_swap ==
    /\ pc = "swap"
    /\ trace' = Append(trace, Call("glfwSwapBuffers", handle))
    /\ pc' = "poll"
    /\ UNCHANGED <<variant, err, exitCode, locals, glfwInitialised, valid, handle,
                   callback, shouldClose, compiled, linked, shaders, live, prior, vertices, indices, count>>

\* viewport::framebuffer_size_callback, run by GLFW when the framebuffer was
\* resized and the callback is registered.
framebuffer_size_callback(resized) ==
    IF resized /\ callback THEN << Call("glViewport", "") >> ELSE <<>>

\* `glfwPollEvents();` of render_loop: the OS may have asked to close the
\* window and may have resized it.
render_loop_poll ==
    /\ pc = "poll"
    /\ \E close \in BOOLEAN, resized \in BOOLEAN :
        /\ trace' = trace \o << Call("glfwPollEvents", IF close THEN "close" ELSE "") >>
                          \o framebuffer_size_callback(resized)
        /\ shouldClose' = (shouldClose \/ close)
    /\ pc' = "loop"
    /\ UNCHANGED <<variant, err, exitCode, locals, glfwInitialised, valid, handle,
                   callback, compiled, linked, shaders, live, prior, vertices, indices, count>>

\* ---------------------------------------------------------------- return
\* A destructor that terminates whether or not glfwInit succeeded.
glfw_dtor_unguarded(v) == << Call("glfwTerminate", "") >>

\* ~glfw of main.cpp (part_000 lines 30-35 are the same code).
glfw_dtor(v) == IF v THEN << Call("glfwTerminate", "") >> ELSE <<>>

\* ~glfw of part_001: the object exists only when glfwInit succeeded.
glfw_dtor_p001 == << Call("glfwTerminate", "") >>

\* ~glfw_window of part_001.
glfw_window_dtor_p001 == << Call("glfwDestroyWindow", handle) >>

\* Destruction of the shape: the only member with a destructor that calls the
\* library is the vector of shaders of main.cpp / part_000.
shape_dtor == DeleteShaders(shaders)

\* Destructors of a main whose window wrapper releases nothing.
LocalDtor_window_kept(l) ==
    CASE l = "shape" -> shape_dtor
      [] l = "viewport" -> viewport_dtor
      [] l = "glad" -> <<>>
      [] l = "window" -> <<>>
      [] l = "glfw" -> IF variant = "part_001" THEN glfw_dtor_p001 ELSE glfw_dtor(valid)

LocalDtor(l) ==
    CASE l = "shape" -> shape_dtor
      [] l = "viewport" -> viewport_dtor
      [] l = "glad" -> <<>>
      [] l = "window" -> IF variant = "part_001" THEN glfw_window_dtor_p001 ELSE <<>>
      [] l = "glfw" -> IF variant = "part_001" THEN glfw_dtor_p001 ELSE glfw_dtor(valid)

RECURSIVE Unwind(_)
\* Destructors of main's locals, last constructed first.
Unwind(ls) ==
    IF ls = <<>> THEN <<>>
    ELSE LocalDtor(ls[Len(ls)]) \o Unwind(SubSeq(ls, 1, Len(ls) - 1))

\* A `return` of main: the locals are destroyed in reverse order of
\* construction and the process exits with exitCode.
main_return ==
    /\ pc = "return"
    /\ LET calls == Unwind(locals) IN
        /\ trace' = trace \o calls
        /\ glfwInitialised' = (glfwInitialised
                                /\ ~\E i \in 1..Len(calls) : calls[i].f = "glfwTerminate")
        /\ callback' = (callback
                         /\ ~\E i \in 1..Len(calls) : calls[i].f = "glfwSetFramebufferSizeCallback")
    /\ live' = [h \in Handles |-> 0]
    /\ shaders' = <<>>
    /\ locals' = <<>>
    /\ pc' = "done"
    /\ UNCHANGED <<variant, err, exitCode, valid, handle, shouldClose, compiled,
                   linked, prior, vertices, indices, count>>

\* ---------------------------------------------------------------- stages
InitFailed == Has(Call("glfwInit", "false"))
WindowFailed == Has(Call("glfwCreateWindow", "NULL"))
LoaderFailed == Has(Call("gladLoadGLLoader", "false"))
CompileFailed(s) == Has(Call("glCompileShader", s)) /\ ~compiled[s]
LinkFailed == Has(Call("glLinkProgram", "prog")) /\ ~linked

\* The first bootstrap stage that failed in a run that returned a negative code.
FailedStage ==
    IF InitFailed THEN "init"
    ELSE IF WindowFailed THEN "window"
    ELSE IF LoaderFailed THEN "loader"
    ELSE "shader"

\* The executable is started again after a failed run; the outcome of the
\* failed run (which stage failed, which code main returned) is remembered.
main_again ==
    /\ pc = "done"
    /\ exitCode < 0
    /\ Cardinality(prior) < MaxPrior
    /\ prior' = prior \cup {[stage |-> FailedStage, code |-> exitCode]}
    /\ pc' = "instantiate"
    /\ trace' = <<>>
    /\ err' = <<>>
    /\ exitCode' = 0
    /\ locals' = <<>>
    /\ glfwInitialised' = FALSE
    /\ valid' = FALSE
    /\ handle' = "NULL"
    /\ callback' = FALSE
    /\ shouldClose' = FALSE
    /\ compiled' = [s \in ShaderHandles |-> FALSE]
    /\ linked' = FALSE
    /\ shaders' = <<>>
    /\ live' = [h \in Handles |-> 0]
    /\ UNCHANGED <<variant, vertices, indices, count>>

\* ---------------------------------------------------------------- specification
Next ==
    \/ glfw_instantiate
    \/ glfw_instantiate_p001
    \/ glfw_window_create
    \/ glfw_window_make_current
    \/ glfw_window_create_p001
    \/ glad_initialise
    \/ glad_initialise_p001
    \/ viewport_initialise
    \/ viewport_initialise_p001
    \/ vertex_array_create
    \/ vertex_buffer_create_p000
    \/ vertex_array_create_p000
    \/ shape_drawable
    \/ shader_create
    \/ shader_create_p001
    \/ shader_pipeline_create
    \/ shader_program_create_p000
    \/ shader_pipeline_create_p001
    \/ triangle_create_return
    \/ triangle_create_p000
    \/ triangle_create_return_p000
    \/ triangle_create_p001
    \/ triangle_create_return_p001
    \/ shader_pipeline_check
    \/ render_loop_test
    \/ process_input
    \/ clear_color_buffer
    \/ shape_draw
    \/ render_loop_swap
    \/ render_loop_poll
    \/ main_return
    \/ main_again

Spec == Init /\ [][Next]_vars

TypeOK ==
    /\ variant \in Variants
    /\ exitCode \in -4..0
    /\ \A h \in Handles : live[h] \in 0..4
    /\ handle \in {"NULL", "win"}

\* ---------------------------------------------------------------- trace vocabulary
DrawFns == {"glDrawArrays", "glDrawElements"}
FrameFns == {"glfwGetKey", "glfwSetWindowShouldClose", "glClearColor", "glClear",
             "glUseProgram", "glDrawArrays", "glDrawElements", "glfwSwapBuffers",
             "glfwPollEvents"}
LoopFns == FrameFns \cup {"glfwWindowShouldClose"}
LoopPcs == {"loop", "input", "clear", "draw", "swap", "poll"}

LoopTests == {i \in 1..Len(trace) : trace[i].f = "glfwWindowShouldClose"}
\* Index of the first loop test after position i, Len(trace) + 1 when none.
NextTest(i) ==
    IF \E k \in LoopTests : k > i
    THEN CHOOSE k \in LoopTests : k > i /\ \A m \in LoopTests : m > i => k <= m
    ELSE Len(trace) + 1
\* The calls issued after the loop test at i and before the next loop test.
Segment(i) == SubSeq(trace, i + 1, NextTest(i) - 1)

IsStep(c) ==
    \/ c.f \in {"glfwGetKey", "glClear", "glUseProgram", "glfwSwapBuffers", "glfwPollEvents"}
    \/ c.f \in DrawFns
    \/ c.f = "glBindVertexArray" /\ c.a # "0"
StepOf(c) == IF c.f \in DrawFns THEN "draw" ELSE c.f
Steps(i) ==
    LET seg == SelectSeq(Segment(i), IsStep) IN [j \in 1..Len(seg) |-> StepOf(seg[j])]
FrameSteps == << "glfwGetKey", "glClear", "glUseProgram", "glBindVertexArray", "draw",
                 "glfwSwapBuffers", "glfwPollEvents" >>
IsPrefix(s, t) == Len(s) <= Len(t) /\ \A j \in 1..Len(s) : s[j] = t[j]

StageFailed ==
    InitFailed \/ WindowFailed \/ LoaderFailed \/ CompileFailed("vs") \/ CompileFailed("fs")

\* ---------------------------------------------------------------- claims

\* C1: in every variant, when library initialisation, window creation,
\* function-pointer loading or the compilation of either shader failed, the
\* render loop is never entered (no loop test, no draw call, no
\* glfwSwapBuffers) and main returns a negative code.
C1_FailureNeverRenders ==
    StageFailed =>
        /\ \A i \in 1..Len(trace) : trace[i].f \notin LoopFns
        /\ pc \notin LoopPcs
        /\ pc \in {"return", "done"} => exitCode < 0

\* C1 witness: main.cpp returned after the fragment shader alone failed to compile.
C1_Witness ==
    /\ pc = "done"
    /\ variant = "main"
    /\ CompileFailed("fs") /\ ~CompileFailed("vs")
    /\ exitCode < 0

\* C2 as stated: two runs of the same variant that failed at different stages
\* never returned the same exit code.
C2_StagesDistinguished ==
    (pc = "done" /\ exitCode < 0) =>
        \A r \in prior : r.stage # FailedStage => r.code # exitCode

\* C2 as amended: part_001 returns -1, -2, -3, -4 for a failure of library
\* initialisation, window creation, loader, shader/program creation, so two
\* runs failing at different stages differ in their code; main.cpp and
\* part_000 return -1 for every bootstrap failure.
C2_ExitCodes ==
    (pc = "done" /\ exitCode < 0) =>
        IF variant = "part_001"
        THEN /\ exitCode = (CASE FailedStage = "init" -> -1
                              [] FailedStage = "window" -> -2
                              [] FailedStage = "loader" -> -3
                              [] FailedStage = "shader" -> -4)
             /\ \A r \in prior : r.stage # FailedStage => r.code # exitCode
        ELSE exitCode = -1

\* C2 witness: part_001 failed a second time, at another stage than before.
C2_Witness ==
    /\ pc = "done"
    /\ variant = "part_001"
    /\ exitCode < 0
    /\ \E r \in prior : r.stage # FailedStage

\* C3 as stated: glUseProgram is reached only for a program whose link
\* succeeded, and when linking failed the render loop is not entered and main
\* returns a negative code.
C3_UsedOnlyIfLinked ==
    /\ Called("glUseProgram") => linked
    /\ LinkFailed =>
        /\ ~Called("glfwWindowShouldClose")
        /\ pc \in {"return", "done"} => exitCode < 0

\* C4 as stated: when main has returned, every buffer, vertex array and
\* program created in the run has been deleted exactly once.
C4_ReleasedOnce ==
    pc = "done" =>
        /\ Has(Call("glGenBuffers", "vbo")) => CountCall(Call("glDeleteBuffers", "vbo")) = 1
        /\ Has(Call("glGenVertexArrays", "vao"))
            => CountCall(Call("glDeleteVertexArrays", "vao")) = 1
        /\ Has(Call("glCreateProgram", "prog")) => CountCall(Call("glDeleteProgram", "prog")) = 1

\* C5 as stated: when main has returned, every shader created in the run has
\* been passed to glDeleteShader exactly once.
C5_ShaderDeletedOnce ==
    pc = "done" =>
        \A s \in ShaderHandles :
            Has(Call("glCreateShader", s)) => CountCall(Call("glDeleteShader", s)) = 1

\* C6: glfwTerminate is called at most once and nothing is called after it;
\* when glfwInit failed it is never called; when glfwInit succeeded and main
\* has returned it has been called exactly once, as the last call of the run.
C6_TerminateOnceLast ==
    /\ Count("glfwTerminate") <= 1
    /\ \A i \in 1..Len(trace) : trace[i].f = "glfwTerminate" => i = Len(trace)
    /\ InitFailed => ~Called("glfwTerminate")
    /\ (pc = "done" /\ Has(Call("glfwInit", "true"))) =>
        /\ Count("glfwTerminate") = 1
        /\ trace[Len(trace)].f = "glfwTerminate"

\* C6 witness: a run that initialised the library, rendered and returned.
C6_Witness ==
    /\ pc = "done"
    /\ Has(Call("glfwInit", "true"))
    /\ Called("glfwSwapBuffers")
    /\ trace[Len(trace)].f = "glfwTerminate"

\* C7 as stated: at every point each GPU handle id is held by at most one
\* live wrapper object.
C7_ExclusiveOwner == \A h \in Handles : live[h] <= 1

\* C8: every iteration of render_loop (the calls between one loop test that
\* found the flag unset and the next loop test) performs, in this order and
\* each once: glfwGetKey, glClear, glUseProgram, glBindVertexArray of the
\* shape's vertex array, one draw call, glfwSwapBuffers, glfwPollEvents; an
\* iteration in progress has performed a prefix of them; after the loop test
\* that found the flag set none of them is performed.
C8_FrameOrder ==
    \A i \in LoopTests :
        IF trace[i].a = "false"
        THEN IF NextTest(i) <= Len(trace) \/ pc = "loop"
             THEN Steps(i) = FrameSteps
             ELSE IsPrefix(Steps(i), FrameSteps)
        ELSE Steps(i) = <<>>

\* C8 witness: two complete iterations were performed and main returned.
C8_Witness ==
    /\ pc = "done"
    /\ Frames >= 2
    /\ Count("glfwPollEvents") = Frames

\* C9: the loop test finds the flag set exactly when escape was seen or the
\* OS asked to close before it; after it found the flag set no further loop
\* call is made, after it found it unset an iteration starts; after a close
\* event in glfwPollEvents no further frame call is made; when escape is seen
\* pressed the flag is set at once, the frame of that iteration is still drawn
\* and presented and the next loop test leaves the loop; main returns 0
\* exactly when the loop was entered and left.
C9_LoopTermination ==
    /\ \A i \in LoopTests :
        /\ trace[i].a = "true" <=>
            \E j \in 1..(i - 1) : \/ trace[j].f = "glfwSetWindowShouldClose"
                                  \/ trace[j] = Call("glfwPollEvents", "close")
        /\ trace[i].a = "true" => \A j \in (i + 1)..Len(trace) : trace[j].f \notin LoopFns
        /\ (trace[i].a = "false" /\ i < Len(trace)) => trace[i + 1].f = "glfwGetKey"
    /\ \A i \in 1..Len(trace) :
        trace[i] = Call("glfwPollEvents", "close") =>
            \A j \in (i + 1)..Len(trace) : trace[j].f \notin FrameFns
    /\ \A i \in 1..Len(trace) :
        trace[i] = Call("glfwGetKey", "GLFW_PRESS") =>
            /\ i < Len(trace) => trace[i + 1] = Call("glfwSetWindowShouldClose", "true")
            /\ NextTest(i) <= Len(trace) =>
                /\ \E d, w \in (i + 1)..(NextTest(i) - 1) :
                    d < w /\ trace[d].f \in DrawFns /\ trace[w].f = "glfwSwapBuffers"
                /\ trace[NextTest(i)].a = "true"
    /\ (pc = "done" /\ exitCode = 0) => Has(Call("glfwWindowShouldClose", "true"))
    /\ (pc \in {"return", "done"} /\ Has(Call("glfwWindowShouldClose", "true"))) => exitCode = 0

\* C9 witness: escape was seen in the second iteration, main returned 0.
C9_Witness ==
    /\ pc = "done"
    /\ exitCode = 0
    /\ Frames = 2
    /\ Has(Call("glfwGetKey", "GLFW_PRESS"))

\* C10 as stated: when glfwInit failed, glfwCreateWindow,
\* glfwMakeContextCurrent and gladLoadGLLoader are never called and, once main
\* has returned, a diagnostic for the initialisation failure is on std::cerr.
C10_InitFailureAborts ==
    InitFailed =>
        /\ ~Called("glfwCreateWindow")
        /\ ~Called("glfwMakeContextCurrent")
        /\ ~Called("gladLoadGLLoader")
        /\ pc = "done" => \E i \in 1..Len(err) : err[i] = "Failed to instantiate glfw"

\* ---------------------------------------------------------------- diagnostics, layers
InErr(d) == \E i \in 1..Len(err) : err[i] = d
Returned == pc \in {"return", "done"}
BothCompiled == \A s \in ShaderHandles : Has(Call("glCompileShader", s)) /\ compiled[s]

GlfwFns == {"glfwInit", "glfwWindowHint", "glfwCreateWindow", "glfwMakeContextCurrent",
            "glfwSetFramebufferSizeCallback", "glfwWindowShouldClose", "glfwGetKey",
            "glfwSetWindowShouldClose", "glfwSwapBuffers", "glfwPollEvents",
            "glfwDestroyWindow", "glfwTerminate"}
\* The GLFW calls that take the window handle.
WindowFns == {"glfwMakeContextCurrent", "glfwSetFramebufferSizeCallback",
              "glfwWindowShouldClose", "glfwGetKey", "glfwSetWindowShouldClose",
              "glfwSwapBuffers", "glfwDestroyWindow"}
\* A call of the graphics API proper (resolved by the loader).
IsGL(c) == c.f \notin GlfwFns /\ c.f # "gladLoadGLLoader"
SetCallback == Call("glfwSetFramebufferSizeCallback", "framebuffer_size_callback")
ResetCallback == Call("glfwSetFramebufferSizeCallback", "nullptr")

\* C11: when main returns a negative code at least one diagnostic is on
\* std::cerr before the return, and when it returns 0 none is; stage by
\* stage: a window, loader, vertex-shader, fragment-shader or program failure
\* that made main return a negative code left its own diagnostic.
C11_DiagnosticIffFailure ==
    /\ (Returned /\ exitCode < 0) => Len(err) >= 1
    /\ (Returned /\ exitCode = 0) => err = <<>>
    /\ (Returned /\ WindowFailed) => InErr("Failed to create GLFW window")
    /\ (Returned /\ LoaderFailed) => InErr("Failed to initialize GLAD")
    /\ (Returned /\ CompileFailed("vs"))
        => InErr("ERROR::SHADER::triangle_vertex::COMPILATION_FAILED")
    /\ (Returned /\ CompileFailed("fs") /\ ~CompileFailed("vs"))
        => InErr("ERROR::SHADER::triangle_fragment::COMPILATION_FAILED")
    /\ (Returned /\ exitCode < 0 /\ BothCompiled)
        => InErr("ERROR::SHADER::PROGRAM::COMPILATION_FAILED")

\* C11 witness: the program did not link, main returned a negative code and
\* the program diagnostic is on std::cerr.
C11_Witness ==
    /\ pc = "done"
    /\ exitCode < 0
    /\ LinkFailed /\ BothCompiled
    /\ InErr("ERROR::SHADER::PROGRAM::COMPILATION_FAILED")

\* C12: the loader runs only after a window was created and its context made
\* current; every call of the graphics API comes after a successful loader
\* call and before any glfwDestroyWindow or glfwTerminate.
C12_LayerOrder ==
    /\ \A i \in 1..Len(trace) :
        trace[i].f = "gladLoadGLLoader" =>
            \E j, k \in 1..(i - 1) :
                /\ j < k
                /\ trace[j] = Call("glfwCreateWindow", "win")
                /\ trace[k] = Call("glfwMakeContextCurrent", "win")
    /\ \A i \in 1..Len(trace) :
        IsGL(trace[i]) =>
            /\ \E j \in 1..(i - 1) : trace[j] = Call("gladLoadGLLoader", "true")
            /\ \A j \in 1..(i - 1) : trace[j].f \notin {"glfwDestroyWindow", "glfwTerminate"}

\* C12 witness: part_001 rendered, handled a resize, destroyed its window and
\* returned 0.
C12_Witness ==
    /\ pc = "done"
    /\ variant = "part_001"
    /\ exitCode = 0
    /\ Called("glViewport")
    /\ Called("glfwDestroyWindow")

\* C13: in part_001 the window, once created, is destroyed exactly once by the
\* time main has returned; when it is destroyed no framebuffer-size callback
\* is registered any more and glfwTerminate has not been called yet; no GLFW
\* call that takes the window handle follows, and glfwTerminate does.
C13_WindowDestroyedOnce ==
    variant = "part_001" =>
        /\ Count("glfwDestroyWindow") <= 1
        /\ (pc = "done" /\ Has(Call("glfwCreateWindow", "win")))
            => CountCall(Call("glfwDestroyWindow", "win")) = 1
        /\ \A i \in 1..Len(trace) :
            trace[i].f = "glfwDestroyWindow" =>
                /\ \A j \in 1..(i - 1) :
                    trace[j] = SetCallback =>
                        \E k \in (j + 1)..(i - 1) : trace[k] = ResetCallback
                /\ \A j \in 1..(i - 1) : trace[j].f # "glfwTerminate"
                /\ \A j \in (i + 1)..Len(trace) : trace[j].f \notin WindowFns
                /\ pc = "done" => \E j \in (i + 1)..Len(trace) : trace[j].f = "glfwTerminate"

\* C13 witness: part_001 returned -4 after its window was created and destroyed.
C13_Witness ==
    /\ pc = "done"
    /\ variant = "part_001"
    /\ exitCode = -4
    /\ Has(SetCallback)
    /\ Has(Call("glfwDestroyWindow", "win"))

\* C16 as stated: while render_loop runs the framebuffer-size callback is
\* registered, and once it was reset to null the loop makes no further call
\* (it is reset only after the loop was left, or in a run that never enters it).
C16_CallbackDuringLoop ==
    /\ pc \in LoopPcs => callback
    /\ \A i \in 1..Len(trace) :
        trace[i] = ResetCallback =>
            \A j \in (i + 1)..Len(trace) : trace[j].f \notin LoopFns

\* ---------------------------------------------------------------- arrays as functions
\* vertex_array::create / draw and element_array::create / draw applied to
\* vertex and index lists drawn from bounded sets; rectangle::create's lists
\* (no main calls it) are among them.
RectangleVertices == 4
RectangleIndices == << 0, 1, 3, 1, 2, 3 >>

VertexInputs == {3 * nv : nv \in 1..MaxVertices}
IndexInputs(nv) ==
    UNION {[1..len -> 0..(nv - 1)] : len \in 0..MaxIndices}
    \cup (IF nv = RectangleVertices THEN {RectangleIndices} ELSE {})

ArrayInit ==
    /\ variant \in Variants
    /\ pc \in (IF variant = "part_000" THEN {"vertex_array::create"}
               ELSE {"vertex_array::create", "element_array::create"})
    /\ vertices \in VertexInputs
    /\ indices \in (IF pc = "element_array::create" THEN IndexInputs(vertices \div 3)
                    ELSE {<<>>})
    /\ count = 0
    /\ trace = <<>>
    /\ err = <<>>
    /\ exitCode = 0
    /\ locals = <<>>
    /\ glfwInitialised = TRUE
    /\ valid = TRUE
    /\ handle = "win"
    /\ callback = FALSE
    /\ shouldClose = FALSE
    /\ compiled = [s \in ShaderHandles |-> FALSE]
    /\ linked = FALSE
    /\ shaders = <<>>
    /\ live = [h \in Handles |-> 0]
    /\ prior = {}

Draws == Cardinality({i \in 1..Len(trace) : trace[i].f \in {"glDrawArrays", "glDrawElements"}})

\* vertex_array::create of main.cpp (part_001 lines 131-143 are the same
\* code) on a vertex list: the wrapper's count is the buffer's count.
create_vertex_array ==
    /\ variant \in {"main", "part_001"}
    /\ pc = "vertex_array::create"
    /\ trace' = trace \o vertex_array_create_calls
    /\ count' = buffer_count(vertices)
    /\ pc' = "vertex_array::draw"
    /\ UNCHANGED <<variant, err, exitCode, locals, glfwInitialised, valid, handle, callback,
                   shouldClose, compiled, linked, shaders, live, prior, vertices, indices>>

\* vertex_buffer::create and vertex_array::create of part_000 on a vertex
\* list: the wrapper keeps the buffer, whose size is in bytes.
create_vertex_array_p000 ==
    /\ variant = "part_000"
    /\ pc = "vertex_array::create"
    /\ trace' = trace \o
         << Call("glGenBuffers", "vbo"),
            Call("glGenVertexArrays", "vao"), Call("glBindVertexArray", "vao"),
            CallT("glBindBuffer", "GL_ARRAY_BUFFER", "vbo"),
            CallT("glBufferData", "GL_ARRAY_BUFFER", "vbo"),
            Call("glVertexAttribPointer", "0"), Call("glEnableVertexAttribArray", "0"),
            CallT("glBindBuffer", "GL_ARRAY_BUFFER", "0"),
            Call("glBindVertexArray", "0") >>
    /\ count' = vertex_buffer_size_p000(vertices)
    /\ pc' = "vertex_array::draw"
    /\ UNCHANGED <<variant, err, exitCode, locals, glfwInitialised, valid, handle, callback,
                   shouldClose, compiled, linked, shaders, live, prior, vertices, indices>>

\* element_array::create of main.cpp (part_001 lines 156-169 are the same
\* code).  The guards are destroyed in reverse order of declaration at the
\* return: _i (glBindBuffer(GL_ELEMENT_ARRAY_BUFFER, 0)), then _v
\* (glBindBuffer(GL_ARRAY_BUFFER, 0)), then _a (glBindVertexArray(0)).
element_array_create_calls ==
    << Call("glGenBuffers", "vbo"), Call("glGenBuffers", "ebo"),
       Call("glGenVertexArrays", "vao"), Call("glBindVertexArray", "vao") >>
    \o buffer_bind("GL_ARRAY_BUFFER", "vbo")
    \o buffer_bind("GL_ELEMENT_ARRAY_BUFFER", "ebo")
    \o << Call("glVertexAttribPointer", "0"), Call("glEnableVertexAttribArray", "0") >>
    \o buffer_bind_guard("GL_ELEMENT_ARRAY_BUFFER")
    \o buffer_bind_guard("GL_ARRAY_BUFFER")
    \o << Call("glBindVertexArray", "0") >>

create_element_array ==
    /\ variant \in {"main", "part_001"}
    /\ pc = "element_array::create"
    /\ trace' = trace \o element_array_create_calls
    /\ count' = buffer_count(Len(indices))
    /\ pc' = "element_array::draw"
    /\ UNCHANGED <<variant, err, exitCode, locals, glfwInitialised, valid, handle, callback,
                   shouldClose, compiled, linked, shaders, live, prior, vertices, indices>>

\* vertex_array::draw of main.cpp (part_001 lines 146-152 are the same code).
draw_vertex_array ==
    /\ variant \in {"main", "part_001"}
    /\ pc = "vertex_array::draw"
    /\ Draws < MaxDraws
    /\ trace' = trace \o << Call("glBindVertexArray", "vao"),
                            Call("glDrawArrays", ToString(count)),
                            Call("glBindVertexArray", "0") >>
    /\ UNCHANGED <<variant, pc, err, exitCode, locals, glfwInitialised, valid, handle,
                   callback, shouldClose, compiled, linked, shaders, live, prior,
                   vertices, indices, count>>

\* vertex_array::draw of part_000: buffer.size / 3 vertices, no unbind.
draw_vertex_array_p000 ==
    /\ variant = "part_000"
    /\ pc = "vertex_array::draw"
    /\ Draws < MaxDraws
    /\ trace' = trace \o << Call("glBindVertexArray", "vao"),
                            Call("glDrawArrays", ToString(count \div 3)) >>
    /\ UNCHANGED <<variant, pc, err, exitCode, locals, glfwInitialised, valid, handle,
                   callback, shouldClose, compiled, linked, shaders, live, prior,
                   vertices, indices, count>>

\* element_array::draw of main.cpp (part_001 lines 172-178 are the same code).
draw_element_array ==
    /\ variant \in {"main", "part_001"}
    /\ pc = "element_array::draw"
    /\ Draws < MaxDraws
    /\ trace' = trace \o << Call("glBindVertexArray", "vao"),
                            Call("glDrawElements", ToString(count)),
                            Call("glBindVertexArray", "0") >>
    /\ UNCHANGED <<variant, pc, err, exitCode, locals, glfwInitialised, valid, handle,
                   callback, shouldClose, compiled, linked, shaders, live, prior,
                   vertices, indices, count>>

ArrayNext ==
    \/ create_vertex_array
    \/ create_vertex_array_p000
    \/ create_element_array
    \/ draw_vertex_array
    \/ draw_vertex_array_p000
    \/ draw_element_array

ArraySpec == ArrayInit /\ [][ArrayNext]_vars

\* The vertex array bound after the first k calls of the trace ("0": none).
BoundVAO(k) ==
    LET S == {j \in 1..k : trace[j].f = "glBindVertexArray"} IN
    IF S = {} THEN "0" ELSE trace[CHOOSE j \in S : \A m \in S : m <= j].a

\* The element-array-buffer binding a vertex array records after the first k
\* calls: a glBindBuffer(GL_ELEMENT_ARRAY_BUFFER, x) changes the binding of
\* the vertex array bound at that moment, and of no other.
ElementBinding(vao, k) ==
    LET S == {j \in 1..k : /\ trace[j].f = "glBindBuffer"
                           /\ trace[j].t = "GL_ELEMENT_ARRAY_BUFFER"
                           /\ BoundVAO(j) = vao} IN
    IF S = {} THEN "0" ELSE trace[CHOOSE j \in S : \A m \in S : m <= j].a

\* C14 as stated: after element_array::create returned, and at every
\* glDrawElements, the vertex array records the index buffer as its
\* element-array-buffer binding; GL_ELEMENT_ARRAY_BUFFER is never bound to 0
\* while that vertex array is bound.
C14_IndexBufferKept ==
    /\ pc = "element_array::draw" => ElementBinding("vao", Len(trace)) = "ebo"
    /\ \A i \in 1..Len(trace) :
        trace[i].f = "glDrawElements" => ElementBinding("vao", i) = "ebo"
    /\ \A i \in 1..Len(trace) :
        trace[i] = CallT("glBindBuffer", "GL_ELEMENT_ARRAY_BUFFER", "0")
            => BoundVAO(i) # "vao"

\* C15 as stated: glDrawArrays is asked for as many vertices as were uploaded
\* (a third of the floats of the list, which glBufferData uploads whole);
\* glDrawElements is asked for as many indices as were uploaded and every
\* index is less than the number of uploaded vertices.
C15_DrawCountMatchesUpload ==
    /\ \A i \in 1..Len(trace) :
        trace[i].f = "glDrawArrays" => trace[i].a = ToString(vertices \div 3)
    /\ \A i \in 1..Len(trace) :
        trace[i].f = "glDrawElements" =>
            /\ trace[i].a = ToString(Len(indices))
            /\ \A k \in 1..Len(indices) : indices[k] < vertices \div 3

====
